---- MODULE Spec2Model ----
(***************************************************************************)
(* Oxygen-supply calculator (OxygenCalculatorScreen).                      *)
(*                                                                         *)
(* Strings are sequences of one-character strings, so that trimming, case  *)
(* folding, the time regular expression, parseInt and parseFloat are       *)
(* computed character by character as the JavaScript does.                 *)
(* Numbers with a fractional part (flow rate, payment factor, cost) are    *)
(* exact decimals [m, k] standing for m * 10^-k; IEEE rounding of the      *)
(* products is not modelled.                                               *)
(***************************************************************************)
EXTENDS Integers, Sequences, FiniteSets, TLC

VARIABLES
    entries,        \* useState<OxygenEntry[]>: the entry list of the last render
    insuranceType,  \* useState<InsuranceType>
    memo,           \* useMemo cells of calculateCost and totalCost
    now,            \* the millisecond clock read by Date.now()
    call            \* the pure function under evaluation (function studies)

vars == <<entries, insuranceType, memo, now, call>>

(***************************************************************************)
(* Bounds of the model.                                                    *)
(***************************************************************************)
\* The component starts with Array.from({ length: 20 }); the model starts
\* with this many rows.
InitialEntries == 2
\* addEntry is disabled once the list holds this many rows.
MaxEntries == 2
\* Clock ticks after the component is mounted.
MaxTicks == 1
\* Length of the arbitrary strings fed to the time parser.
MaxJunkLen == 4
\* Length of the arbitrary strings fed to parseFloat.
MaxFlowLen == 3

(***************************************************************************)
(* Characters and strings.                                                 *)
(***************************************************************************)
Digit == <<"0", "1", "2", "3", "4", "5", "6", "7", "8", "9">>

LowerCase == <<"a", "b", "c", "d", "e", "f", "g", "h", "i", "j", "k", "l", "m",
               "n", "o", "p", "q", "r", "s", "t", "u", "v", "w", "x", "y", "z">>

UpperCase == <<"A", "B", "C", "D", "E", "F", "G", "H", "I", "J", "K", "L", "M",
               "N", "O", "P", "Q", "R", "S", "T", "U", "V", "W", "X", "Y", "Z">>

WhiteSpace == {" ", "\t", "\n"}

DigitValues == [c \in {Digit[i] : i \in 1..10} |-> (CHOOSE i \in 1..10 : Digit[i] = c) - 1]

IsDigit(c) == c \in DOMAIN DigitValues

DigitVal(c) == DigitValues[c]

UpperCaseOf ==
    [c \in {LowerCase[i] : i \in 1..Len(LowerCase)} |->
        UpperCase[CHOOSE i \in 1..Len(LowerCase) : LowerCase[i] = c]]

\* String.prototype.toUpperCase, one character
UpperChar(c) == IF c \in DOMAIN UpperCaseOf THEN UpperCaseOf[c] ELSE c

toUpperCase(s) == [i \in 1..Len(s) |-> UpperChar(s[i])]

RECURSIVE trimStart(_)
trimStart(s) ==
    IF s # <<>> /\ Head(s) \in WhiteSpace THEN trimStart(Tail(s)) ELSE s

RECURSIVE trimEnd(_)
trimEnd(s) ==
    IF s # <<>> /\ s[Len(s)] \in WhiteSpace
    THEN trimEnd(SubSeq(s, 1, Len(s) - 1))
    ELSE s

trim(s) == trimEnd(trimStart(s))

\* String(n) for a non-negative integer
RECURSIVE String(_)
String(n) ==
    IF n < 10 THEN <<Digit[n + 1]>>
    ELSE String(n \div 10) \o <<Digit[(n % 10) + 1]>>

RECURSIVE padStart(_, _, _)
padStart(s, width, fill) ==
    IF Len(s) >= width THEN s ELSE padStart(<<fill>> \o s, width, fill)

\* parseInt(s, 10) of a string of decimal digits
RECURSIVE parseInt(_)
parseInt(s) ==
    IF s = <<>> THEN 0
    ELSE parseInt(SubSeq(s, 1, Len(s) - 1)) * 10 + DigitVal(s[Len(s)])

\* "no value" (null) is the empty sequence, a value v is <<v>>
null == <<>>

(***************************************************************************)
(* formatDateToTime: a Date, given by getHours() and getMinutes(), to the  *)
(* display string `${h12}:${mm} ${ampm}`.                                  *)
(***************************************************************************)
Display(h12, mm, ampm) == String(h12) \o <<":">> \o mm \o <<" ">> \o ampm

\* formatDateToTime with noon taken for a morning hour (hours > 12 for hours >= 12)
formatDateToTime_NoonAsAM(date) ==
    Display(IF date.hours % 12 = 0 THEN 12 ELSE date.hours % 12,
            padStart(String(date.minutes), 2, "0"),
            IF date.hours > 12 THEN <<"P", "M">> ELSE <<"A", "M">>)

formatDateToTime(date) ==
    Display(IF date.hours % 12 = 0 THEN 12 ELSE date.hours % 12,
            padStart(String(date.minutes), 2, "0"),
            IF date.hours >= 12 THEN <<"P", "M">> ELSE <<"A", "M">>)

(***************************************************************************)
(* The regular expression /^\s*(\d{1,2}):(\d{2})(?:\s*(AM|PM))?\s*$/i.     *)
(* The result is null or <<[h, mm, ampm]>> with the three captured groups  *)
(* (ampm is the empty string when the optional group did not take part).   *)
(***************************************************************************)
MeridiemOf(r) ==
    \* r: what follows the minutes, leading white space removed
    IF r = <<>> THEN <<<<>>>>
    ELSE IF /\ Len(r) >= 2
            /\ UpperChar(r[1]) \in {"A", "P"}
            /\ UpperChar(r[2]) = "M"
            /\ trimStart(SubSeq(r, 3, Len(r))) = <<>>
         THEN <<SubSeq(r, 1, 2)>>
         ELSE null

\* the number of digits of (\d{1,2}) before the colon, 0 when it does not match
HourDigits(t) ==
    IF Len(t) >= 2 /\ IsDigit(t[1]) /\ t[2] = ":" THEN 1
    ELSE IF Len(t) >= 3 /\ IsDigit(t[1]) /\ IsDigit(t[2]) /\ t[3] = ":" THEN 2
    ELSE 0

Groups(t, hlen, mer) ==
    IF mer = null THEN null
    ELSE <<[h |-> SubSeq(t, 1, hlen), mm |-> SubSeq(t, hlen + 2, hlen + 3), ampm |-> mer[1]]>>

MatchFrom(t, hlen) ==
    IF hlen = 0 THEN null
    ELSE IF ~ (/\ Len(t) >= hlen + 3
               /\ IsDigit(t[hlen + 2])
               /\ IsDigit(t[hlen + 3]))
         THEN null
         ELSE Groups(t, hlen, MeridiemOf(trimStart(SubSeq(t, hlen + 4, Len(t)))))

MatchTrimmed(t) == MatchFrom(t, HourDigits(t))

matchTime(s) == MatchTrimmed(trimStart(s))

(***************************************************************************)
(* parseTime of calculateMinutes (tolerant 12h/24h variant).               *)
(***************************************************************************)
To24Hours(hours, ampm) ==
    IF ampm = <<"P", "M">> /\ hours < 12 THEN hours + 12
    ELSE IF ampm = <<"A", "M">> /\ hours = 12 THEN 0
    ELSE hours

\* the range check with the hour bound off by one (hours > 24 for hours > 23)
InRange_Hour24(hours, minutes) ==
    ~ (hours < 0 \/ hours > 24 \/ minutes < 0 \/ minutes > 59)

\* the range check without its minute half
InRange_HoursOnly(hours, minutes) ==
    ~ (hours < 0 \/ hours > 23)

InRange(hours, minutes) ==
    ~ (hours < 0 \/ hours > 23 \/ minutes < 0 \/ minutes > 59)

NormalizeTime(time) == toUpperCase(trim(time))

MinutesSinceMidnight(hours, minutes) ==
    IF ~ InRange(hours, minutes) THEN null ELSE <<hours * 60 + minutes>>

Interpret(m) ==
    IF m = null THEN null
    ELSE MinutesSinceMidnight(To24Hours(parseInt(m[1].h), m[1].ampm), parseInt(m[1].mm))

parseTime(time) ==
    IF time = <<>> THEN null ELSE Interpret(matchTime(NormalizeTime(time)))

(***************************************************************************)
(* calculateMinutes(startTime, endTime).                                   *)
(***************************************************************************)
Wrap(diff) == IF diff < 0 THEN diff + 24 * 60 ELSE diff

\* the same with diff <= 0, so that equal times give 1440
Elapsed_WrapOnEqual(startMinutes, endMinutes) ==
    IF startMinutes = null \/ endMinutes = null THEN 0
    ELSE IF endMinutes[1] - startMinutes[1] <= 0
         THEN endMinutes[1] - startMinutes[1] + 24 * 60
         ELSE endMinutes[1] - startMinutes[1]

Elapsed(startMinutes, endMinutes) ==
    IF startMinutes = null \/ endMinutes = null THEN 0
    ELSE Wrap(endMinutes[1] - startMinutes[1])

calculateMinutes(startTime, endTime) ==
    IF startTime = <<>> \/ endTime = <<>> THEN 0
    ELSE Elapsed(parseTime(startTime), parseTime(endTime))

(***************************************************************************)
(* Numbers with a fractional part: [m, k] is m * 10^-k, kept without       *)
(* trailing zeros so that equal numbers are equal records.                 *)
(***************************************************************************)
RECURSIVE Pow10(_)
Pow10(k) == IF k = 0 THEN 1 ELSE 10 * Pow10(k - 1)

RECURSIVE Norm(_)
Norm(d) ==
    IF d.k > 0 /\ d.m % 10 = 0 THEN Norm([m |-> d.m \div 10, k |-> d.k - 1]) ELSE d

Number(n) == [m |-> n, k |-> 0]

Times(a, b) == Norm([m |-> a.m * b.m, k |-> a.k + b.k])

Aligned(a, b, k) == Norm([m |-> a.m * Pow10(k - a.k) + b.m * Pow10(k - b.k), k |-> k])

Plus(a, b) == Aligned(a, b, IF a.k >= b.k THEN a.k ELSE b.k)

GreaterThanZero(a) == a.m > 0

(***************************************************************************)
(* parseFloat: leading white space, an optional sign, then the longest     *)
(* prefix of the form digits [. digits] or . digits; NaN when there is     *)
(* none.  Exponents and "Infinity" are outside the alphabet of the model.  *)
(***************************************************************************)
NaN == <<>>

RECURSIVE DigitRun(_)
DigitRun(s) ==
    IF s # <<>> /\ IsDigit(Head(s)) THEN <<Head(s)>> \o DigitRun(Tail(s)) ELSE <<>>

Signed(t) == t # <<>> /\ Head(t) \in {"+", "-"}

Sign(t) == IF Signed(t) /\ Head(t) = "-" THEN -1 ELSE 1

Unsigned(t) == IF Signed(t) THEN Tail(t) ELSE t

Fraction(v) == IF v # <<>> /\ Head(v) = "." THEN DigitRun(Tail(v)) ELSE <<>>

Decimal(sign, whole, frac) ==
    IF whole = <<>> /\ frac = <<>> THEN NaN
    ELSE <<Norm([m |-> sign * parseInt(whole \o frac), k |-> Len(frac)])>>

AfterWhole(sign, u, whole) ==
    Decimal(sign, whole, Fraction(SubSeq(u, Len(whole) + 1, Len(u))))

AfterSign(sign, u) == AfterWhole(sign, u, DigitRun(u))

ParseTrimmed(t) == AfterSign(Sign(t), Unsigned(t))

\* parseInt in the place of parseFloat: the fraction is dropped
parseFloat_WholeOnly(str) ==
    Decimal(Sign(trimStart(str)), DigitRun(Unsigned(trimStart(str))), <<>>)

parseFloat(str) == ParseTrimmed(trimStart(str))

\* x || 0 for a number x: NaN and 0 are falsy
OrZero(x) == IF x = NaN \/ x[1].m = 0 THEN Number(0) ELSE x[1]

(***************************************************************************)
(* paymentFactor, calculateCost, totalCost.                                *)
(***************************************************************************)
paymentFactor(type) ==
    IF type = "contributivo" THEN [m |-> 45, k |-> 2] ELSE [m |-> 25, k |-> 2]

calculateCost(entry, factor) ==
    Times(Times(Number(calculateMinutes(entry.startTime, entry.endTime)),
                OrZero(parseFloat(entry.flowRate))),
          factor)

\* list.reduce((sum, entry) => sum + calculateCost(entry), 0)
RECURSIVE reduceCost(_, _)
reduceCost(list, factor) ==
    IF list = <<>> THEN Number(0)
    ELSE Plus(reduceCost(SubSeq(list, 1, Len(list) - 1), factor),
              calculateCost(list[Len(list)], factor))

(***************************************************************************)
(* The two useMemo cells.  A cell keeps the dependencies of its last       *)
(* computation and the value; it recomputes when a dependency differs.     *)
(* The entry list is compared by content: setEntries gets a new array from *)
(* every handler but the no-match return of updateEntry, which hands back  *)
(* the same array, so the same content.                                    *)
(***************************************************************************)
useMemo(cell, deps, value) == IF cell.deps = deps THEN cell ELSE [deps |-> deps, value |-> value]

\* useMemo(..., [paymentFactor]): the factor the memoised calculateCost uses
CalculateCostDeps(factor) == <<factor>>

\* useMemo(..., [entries, calculateCost])
TotalCostDeps_EntriesOnly(list, calc) == <<list>>

TotalCostDeps(list, calc) == <<list, calc>>

NoCell == [deps |-> <<>>, value |-> <<>>]

\* one render of the component with the given state
RenderTotal(cells, list, calc) ==
    [calculateCost |-> calc,
     totalCost     |-> useMemo(cells.totalCost, TotalCostDeps(list, calc.value),
                               reduceCost(list, calc.value))]

RenderCost(cells, list, factor) ==
    RenderTotal(cells, list,
                useMemo(cells.calculateCost, CalculateCostDeps(factor), factor))

Render(cells, list, type) == RenderCost(cells, list, paymentFactor(type))

(***************************************************************************)
(* The state of the mounted component before any event.                    *)
(***************************************************************************)
EmptyEntry(id) ==
    [id |-> id, startTime |-> <<>>, endTime |-> <<>>, flowRate |-> <<>>]

\* Array.from({ length: 20 }, (_, i) => ({ id: `entry-${i}`, ... }))
InitialList == [i \in 1..InitialEntries |-> EmptyEntry(i - 1)]

FirstRender ==
    Render([calculateCost |-> NoCell, totalCost |-> NoCell], InitialList, "contributivo")

Idle == [op |-> "none"]

(***************************************************************************)
(* Inputs of the time-parser study.                                        *)
(***************************************************************************)
Dates == [hours : 0..23, minutes : 0..59]

\* what may surround the digits of a clock string: white space before, and
\* white space and a meridiem marker (as typed) after
Dress ==
    { [pre |-> <<>>,    suf |-> <<>>,                     marker |-> "" ],
      [pre |-> <<" ">>, suf |-> <<" ">>,                  marker |-> "" ],
      [pre |-> <<>>,    suf |-> <<" ", "A", "M">>,        marker |-> "AM"],
      [pre |-> <<>>,    suf |-> <<" ", "P", "M">>,        marker |-> "PM"],
      [pre |-> <<>>,    suf |-> <<"a", "m">>,             marker |-> "AM"],
      [pre |-> <<" ">>, suf |-> <<" ", " ", "p", "M", " ">>, marker |-> "PM"] }

\* the hour as written: one digit, or two digits (with a leading zero below 10)
WrittenHours == [value : 0..9, wide : {FALSE}] \cup [value : 0..99, wide : {TRUE}]

TwoDigits(n) == <<Digit[(n \div 10) + 1], Digit[(n % 10) + 1]>>

ClockShapes == [kind : {"clock"}, hour : WrittenHours, minute : 0..99, dress : Dress]

ClockText(shape) ==
    shape.dress.pre
    \o (IF shape.hour.wide THEN TwoDigits(shape.hour.value)
        ELSE <<Digit[shape.hour.value + 1]>>)
    \o <<":">> \o TwoDigits(shape.minute) \o shape.dress.suf

JunkAlphabet == {"7", "0", ":", " ", "P", "M", "x"}

RECURSIVE StringsUpTo(_, _)
StringsUpTo(alphabet, n) ==
    IF n = 0 THEN {<<>>}
    ELSE LET shorter == StringsUpTo(alphabet, n - 1)
         IN  shorter \cup {Append(s, c) : s \in {t \in shorter : Len(t) = n - 1},
                                           c \in alphabet}

JunkTimes == StringsUpTo(JunkAlphabet, MaxJunkLen)

Unchanged_UI == UNCHANGED <<entries, insuranceType, memo, now>>

UIInit ==
    /\ entries = InitialList
    /\ insuranceType = "contributivo"
    /\ memo = FirstRender
    /\ now = 0

ParseInit ==
    /\ UIInit
    /\ \/ \E d \in Dates :
            call = [op |-> "formatDateToTime", shape |-> [kind |-> "date", date |-> d],
                    time |-> <<>>, ret |-> null]
       \/ \E c \in ClockShapes :
            call = [op |-> "parseTime", shape |-> c, time |-> ClockText(c), ret |-> null]
       \/ \E j \in JunkTimes :
            call = [op |-> "parseTime", shape |-> [kind |-> "junk"], time |-> j,
                    ret |-> null]

\* the picker hands a Date to formatDateToTime; the string goes to the parser
FormatDate ==
    /\ call.op = "formatDateToTime"
    /\ call' = [call EXCEPT !.op = "parseTime",
                            !.time = formatDateToTime(call.shape.date)]
    /\ Unchanged_UI

ParseTime ==
    /\ call.op = "parseTime"
    /\ call' = [call EXCEPT !.op = "parsed", !.ret = parseTime(call.time)]
    /\ Unchanged_UI

ParseNext == FormatDate \/ ParseTime

SpecParse == ParseInit /\ [][ParseNext]_vars

Parsed == call.op = "parsed"

\* C1: for every hour h in 0..23 and minute m in 0..59, parseTime applied to
\* the string that formatDateToTime produces for (h, m) returns h*60+m.
RoundTrip ==
    (Parsed /\ call.shape.kind = "date")
        => call.ret = <<call.shape.date.hours * 60 + call.shape.date.minutes>>

RoundTripWitness ==
    /\ Parsed
    /\ call.shape.kind = "date"
    /\ call.shape.date = [hours |-> 12, minutes |-> 5]
    /\ call.time = <<"1", "2", ":", "0", "5", " ", "P", "M">>
    /\ call.ret = <<725>>

\* C2: with a meridiem marker the parser yields a value only if the hour H
\* is in 1..12 and the minute MM in 0..59 (no value for hour 0 or 13..99);
\* the value is (H mod 12)*60 + MM for AM, and that plus 720 for PM.
MeridiemHourRange ==
    (Parsed /\ call.shape.kind = "clock" /\ call.shape.dress.marker # "")
        => LET H  == call.shape.hour.value
               MM == call.shape.minute
           IN  IF H \in 1..12 /\ MM \in 0..59
               THEN call.ret = <<(H % 12) * 60 + MM
                                   + (IF call.shape.dress.marker = "PM" THEN 720 ELSE 0)>>
               ELSE call.ret = null

\* C3: a string H:MM or HH:MM without a marker is 24-hour notation: H*60+MM
\* for H in 0..23 and MM in 0..59; every value the parser returns is in
\* 0..1439; the 24-hour string and the 12-hour display string of the same
\* clock time parse to the same value (14:30 and 2:30 PM give 870).
TwentyFourHour ==
    /\ (Parsed /\ call.ret # null) => call.ret[1] \in 0..1439
    /\ (Parsed /\ call.shape.kind = "clock" /\ call.shape.dress.marker = "")
        => LET H  == call.shape.hour.value
               MM == call.shape.minute
           IN  (H \in 0..23 /\ MM \in 0..59)
                   => /\ call.ret = <<H * 60 + MM>>
                      /\ call.ret = parseTime(formatDateToTime([hours |-> H, minutes |-> MM]))
    /\ (Parsed /\ call.time \in {<<"1", "4", ":", "3", "0">>,
                                 <<"2", ":", "3", "0", " ", "P", "M">>})
        => call.ret = <<870>>

TwentyFourHourWitness ==
    /\ Parsed
    /\ call.shape.kind = "clock"
    /\ call.time = <<"1", "4", ":", "3", "0">>
    /\ call.ret = <<870>>

(***************************************************************************)
(* Inputs of the calculateMinutes study: pairs (startTime, endTime).       *)
(***************************************************************************)
DateOperand(d) == [shape |-> [kind |-> "date", date |-> d], time |-> formatDateToTime(d)]

ClockOperand(c) == [shape |-> c, time |-> ClockText(c)]

JunkOperand(j) == [shape |-> [kind |-> "junk"], time |-> j]

PickedDates == [hours : 0..23, minutes : {0, 30, 59}]

TypedClocks ==
    { c \in ClockShapes : /\ c.hour.wide
                          /\ c.hour.value \in {0, 7, 14, 23, 24, 25}
                          /\ c.minute \in {0, 60}
                          /\ c.dress.pre = <<>> /\ c.dress.suf = <<>> }

Malformed ==
    { <<>>, <<"a", "b", "c">>, <<"7", ":", "5">>, <<"7", ".", "0", "0">>,
      <<":", "3", "0">>, <<"7", ":", "0", "0", " ", "X", "M">>,
      <<"1", "2", "3", ":", "0", "0">>, <<"7", ":", "0", "0", "0">>,
      <<"7", " ", ":", "0", "0">>, <<"P", "M">>, <<"7", ":", "0", "0", " ", "A", " ", "M">> }

MinuteOperands ==
    {DateOperand(d) : d \in PickedDates}
        \cup {ClockOperand(c) : c \in TypedClocks}
        \cup {JunkOperand(j) : j \in Malformed}

SevenAM == DateOperand([hours |-> 7, minutes |-> 0])

EightAM == DateOperand([hours |-> 8, minutes |-> 0])

MinutesInit ==
    /\ UIInit
    /\ \/ \E a \in MinuteOperands, b \in MinuteOperands :
            call = [op |-> "calculateMinutes", start |-> a, end |-> b, ret |-> null]
       \/ \E j \in JunkTimes :
            \/ call = [op |-> "calculateMinutes", start |-> JunkOperand(j),
                       end |-> EightAM, ret |-> null]
            \/ call = [op |-> "calculateMinutes", start |-> SevenAM,
                       end |-> JunkOperand(j), ret |-> null]

CalculateMinutes ==
    /\ call.op = "calculateMinutes"
    /\ call' = [call EXCEPT !.op = "minutes",
                            !.ret = <<calculateMinutes(call.start.time, call.end.time)>>]
    /\ Unchanged_UI

MinutesNext == CalculateMinutes

SpecMinutes == MinutesInit /\ [][MinutesNext]_vars

(***************************************************************************)
(* The grammar of clock strings, stated on positions: a white space, hd    *)
(* hour digits, a colon, two minute digits, b white space, a marker of mk  *)
(* letters (0 or 2), white space to the end.                               *)
(***************************************************************************)
AllIn(s, i, j, set) == \A x \in i..j : s[x] \in set

DigitChars == {Digit[i] : i \in 1..10}

RECURSIVE Numeral(_, _, _)
Numeral(s, i, j) ==
    IF j < i THEN 0
    ELSE 10 * Numeral(s, i, j - 1) + CHOOSE v \in 0..9 : Digit[v + 1] = s[j]

Readings(s) ==
    { r \in [a : 0..Len(s), hd : 1..2, b : 0..Len(s), mk : {0, 2}] :
        LET q == r.a + r.hd + 3 + r.b
        IN  /\ q + r.mk <= Len(s)
            /\ AllIn(s, 1, r.a, WhiteSpace)
            /\ AllIn(s, r.a + 1, r.a + r.hd, DigitChars)
            /\ s[r.a + r.hd + 1] = ":"
            /\ AllIn(s, r.a + r.hd + 2, r.a + r.hd + 3, DigitChars)
            /\ AllIn(s, r.a + r.hd + 4, q, WhiteSpace)
            /\ r.mk = 2 => (s[q + 1] \in {"A", "a", "P", "p"} /\ s[q + 2] \in {"M", "m"})
            /\ AllIn(s, q + r.mk + 1, Len(s), WhiteSpace) }

\* not digits(1-2) ':' digits(2) with an optional AM/PM marker, or hour or
\* minute out of range
Rejected(s) ==
    ~ \E r \in Readings(s) :
        /\ Numeral(s, r.a + 1, r.a + r.hd) <= 23
        /\ Numeral(s, r.a + r.hd + 2, r.a + r.hd + 3) <= 59

MinutesDone == call.op = "minutes"

Meant(operand) ==
    IF operand.shape.kind = "date"
    THEN <<operand.shape.date.hours * 60 + operand.shape.date.minutes>>
    ELSE IF /\ operand.shape.kind = "clock"
            /\ operand.shape.hour.value <= 23
            /\ operand.shape.minute <= 59
         THEN <<operand.shape.hour.value * 60 + operand.shape.minute>>
         ELSE null

\* C5: when both strings parse to s and e, calculateMinutes returns
\* (e - s) mod 1440: e - s when e >= s, e - s + 1440 when e < s; the result
\* is in 0..1439, equal times give 0, and 11:00 PM to 1:00 AM gives 120.
MidnightWrap ==
    (MinutesDone /\ Meant(call.start) # null /\ Meant(call.end) # null)
        => LET s == Meant(call.start)[1]
               e == Meant(call.end)[1]
           IN  /\ parseTime(call.start.time) = <<s>>
               /\ parseTime(call.end.time) = <<e>>
               /\ call.ret = <<IF e >= s THEN e - s ELSE e - s + 1440>>
               /\ call.ret[1] \in 0..1439
               /\ (e = s => call.ret = <<0>>)
               /\ (s = 23 * 60 /\ e = 60) => call.ret = <<120>>

MidnightWrapWitness ==
    /\ MinutesDone
    /\ call.start.time = <<"1", "1", ":", "0", "0", " ", "P", "M">>
    /\ call.end.time = <<"1", ":", "0", "0", " ", "A", "M">>
    /\ call.ret = <<120>>

(***************************************************************************)
(* Inputs of the calculateCost study: an entry and a category.             *)
(***************************************************************************)
FlowAlphabet == {"2", "0", "5", ".", "-", " ", "x"}

FlowRates == StringsUpTo(FlowAlphabet, MaxFlowLen)

ElevenPM == DateOperand([hours |-> 23, minutes |-> 0])

OneAM == DateOperand([hours |-> 1, minutes |-> 0])

CostIntervals ==
    { <<SevenAM, EightAM>>, <<ElevenPM, OneAM>>, <<SevenAM, SevenAM>>,
      <<JunkOperand(<<>>), EightAM>> }

InsuranceTypes == {"contributivo", "subsidiado"}

CostInit ==
    /\ UIInit
    /\ \E i \in CostIntervals, f \in FlowRates, t \in InsuranceTypes :
            call = [op |-> "calculateCost", start |-> i[1], end |-> i[2],
                    flowRate |-> f, type |-> t, ret |-> null]

CalculateCost ==
    /\ call.op = "calculateCost"
    /\ call' = [call EXCEPT
                  !.op = "cost",
                  !.ret = <<calculateCost([id |-> 0,
                                           startTime |-> call.start.time,
                                           endTime |-> call.end.time,
                                           flowRate |-> call.flowRate],
                                          paymentFactor(call.type))>>]
    /\ Unchanged_UI

CostNext == CalculateCost

SpecCost == CostInit /\ [][CostNext]_vars

(***************************************************************************)
(* The numeric value of a flow-rate string, stated on prefixes: the value  *)
(* of the longest prefix (after leading white space) that is a numeral,    *)
(* 0 when no prefix is one.                                                *)
(***************************************************************************)
\* [sign] digits, [sign] digits . digits*, [sign] . digits+
IsNumeral(p) ==
    \E sg \in 0..1, w \in 0..Len(p), dot \in 0..1 :
        LET f == Len(p) - sg - w - dot
        IN  /\ f >= 0
            /\ w + f >= 1
            /\ dot = 0 => f = 0
            /\ sg = 1 => p[1] \in {"+", "-"}
            /\ AllIn(p, sg + 1, sg + w, DigitChars)
            /\ dot = 1 => p[sg + w + 1] = "."
            /\ AllIn(p, sg + w + dot + 1, Len(p), DigitChars)

\* the value of a numeral: num * 10^-places
NumeralValue(p) ==
    LET sg     == IF p[1] \in {"+", "-"} THEN 1 ELSE 0
        dots   == {i \in 1..Len(p) : p[i] = "."}
        dot    == IF dots = {} THEN Len(p) + 1 ELSE CHOOSE i \in dots : TRUE
        places == IF dots = {} THEN 0 ELSE Len(p) - dot
        num    == Numeral(p, sg + 1, dot - 1) * Pow10(places) + Numeral(p, dot + 1, Len(p))
    IN  [num |-> IF p[1] = "-" THEN 0 - num ELSE num, places |-> places]

FlowMeant(str) ==
    LET t    == trimStart(str)
        lens == {n \in 1..Len(t) : IsNumeral(SubSeq(t, 1, n))}
    IN  IF lens = {} THEN [num |-> 0, places |-> 0]
        ELSE NumeralValue(SubSeq(t, 1, CHOOSE n \in lens : \A o \in lens : o <= n))

CostDone == call.op = "cost"

\* C6: calculateCost(entry) = calculateMinutes(entry.startTime, entry.endTime)
\* * flow * factor, with factor 0.45 for contributivo and 0.25 for subsidiado
\* and flow the numeric value of entry.flowRate, 0 when flowRate is empty or
\* not a number; 7:00 AM to 8:00 AM at flow 2 under contributivo costs 54.
CostFormula ==
    CostDone =>
        LET s       == Meant(call.start)
            e       == Meant(call.end)
            minutes == IF s = null \/ e = null THEN 0 ELSE (e[1] - s[1]) % 1440
            flow    == FlowMeant(call.flowRate)
            hundred == IF call.type = "contributivo" THEN 45 ELSE 25
            cost    == call.ret[1]
        IN  \* cost = minutes * flow * hundred / 100
            /\ cost = Norm([m |-> minutes * flow.num * hundred, k |-> flow.places + 2])
            /\ (/\ call.start = SevenAM /\ call.end = EightAM
                /\ call.flowRate = <<"2">> /\ call.type = "contributivo")
                   => cost = Number(54)

CostFormulaWitness ==
    /\ CostDone
    /\ call.start = ElevenPM /\ call.end = OneAM
    /\ call.flowRate = <<"2", ".", "5">>
    /\ call.type = "subsidiado"
    /\ call.ret = <<Number(75)>>

(***************************************************************************)
(* The handlers of the screen.  Each action is one event: the handler and  *)
(* the render React runs for the state it set.                             *)
(***************************************************************************)
\* Date.now(): the clock starts past the indices of the initial ids
DateNow == InitialEntries + now

addEntry(list, ms) == Append(list, EmptyEntry(ms))

removeEntry(list, id) ==
    IF Len(list) > 1 THEN SelectSeq(list, LAMBDA entry : entry.id # id) ELSE list

\* prev.findIndex((e) => e.id === id), 0 for -1
findIndex(prev, id) ==
    IF \E i \in 1..Len(prev) : prev[i].id = id
    THEN CHOOSE i \in 1..Len(prev) :
            prev[i].id = id /\ \A j \in 1..(i - 1) : prev[j].id # id
    ELSE 0

\* the map without the spread: the entry keeps its id and the written field only
Updated_NoSpread(prev, idx, field, value) ==
    [i \in 1..Len(prev) |->
        IF i = idx THEN [EmptyEntry(prev[i].id) EXCEPT ![field] = value] ELSE prev[i]]

\* prev.map((entry, i) => (i === idx ? { ...entry, [field]: value } : entry))
Updated(prev, idx, field, value) ==
    [i \in 1..Len(prev) |-> IF i = idx THEN [prev[i] EXCEPT ![field] = value] ELSE prev[i]]

\* the seeding without the test of next.startTime
UpdateAt_Overwrite(prev, idx, field, value) ==
    IF idx = 0 THEN prev
    ELSE IF field = "endTime" /\ idx + 1 <= Len(prev)
         THEN [Updated(prev, idx, field, value)
                  EXCEPT ![idx + 1] = [prev[idx + 1] EXCEPT !.startTime = value]]
         ELSE Updated(prev, idx, field, value)

UpdateAt(prev, idx, field, value) ==
    IF idx = 0 THEN prev
    ELSE IF field = "endTime" /\ idx + 1 <= Len(prev) /\ prev[idx + 1].startTime = <<>>
         THEN [Updated(prev, idx, field, value)
                  EXCEPT ![idx + 1] = [prev[idx + 1] EXCEPT !.startTime = value]]
         ELSE Updated(prev, idx, field, value)

updateEntry(prev, id, field, value) == UpdateAt(prev, findIndex(prev, id), field, value)

Ids(list) == {list[i].id : i \in 1..Len(list)}

\* what the pickers and the flow-rate input hand to updateEntry
StartPicks == {[field |-> "startTime", date |-> [hours |-> 23, minutes |-> 0]]}

EndPicks == {[field |-> "endTime", date |-> [hours |-> 1, minutes |-> 0]]}

TypedFlows == {<<"2">>}

Commit(list, type) ==
    /\ entries' = list
    /\ insuranceType' = type
    /\ memo' = Render(memo, list, type)

AddEntry ==
    /\ Len(entries) < MaxEntries
    /\ Commit(addEntry(entries, DateNow), insuranceType)
    /\ UNCHANGED <<now, call>>

RemoveEntry(id) ==
    /\ Commit(removeEntry(entries, id), insuranceType)
    /\ UNCHANGED <<now, call>>

PickTime(id, field, date) ==
    /\ Commit(updateEntry(entries, id, field, formatDateToTime(date)), insuranceType)
    /\ UNCHANGED <<now, call>>

ChangeFlowRate(id, value) ==
    /\ Commit(updateEntry(entries, id, "flowRate", value), insuranceType)
    /\ UNCHANGED <<now, call>>

\* a category change that also starts the list over
SetInsuranceType_Reset(type) ==
    /\ Commit(InitialList, type)
    /\ UNCHANGED <<now, call>>

SetInsuranceType(type) ==
    /\ Commit(entries, type)
    /\ UNCHANGED <<now, call>>

Tick ==
    /\ now < MaxTicks
    /\ now' = now + 1
    /\ UNCHANGED <<entries, insuranceType, memo, call>>

Init == UIInit /\ call = Idle

Next ==
    \/ AddEntry
    \/ \E id \in Ids(entries) : RemoveEntry(id)
    \/ \E id \in Ids(entries), pick \in StartPicks \cup EndPicks :
            PickTime(id, pick.field, pick.date)
    \/ \E id \in Ids(entries), value \in TypedFlows : ChangeFlowRate(id, value)
    \/ \E type \in InsuranceTypes : SetInsuranceType(type)
    \/ Tick

Spec == Init /\ [][Next]_vars

RECURSIVE SumOfCosts(_, _)
SumOfCosts(n, type) ==
    IF n = 0 THEN Number(0)
    ELSE Plus(SumOfCosts(n - 1, type), calculateCost(entries[n], paymentFactor(type)))

\* C7: in every state reached by addEntry, removeEntry, updateEntry and
\* category changes, the displayed totalCost is the sum of calculateCost over
\* the entries now in the list, with the factor of the category now
\* selected (the memoised total is never stale).
TotalIsSum == memo.totalCost.value = SumOfCosts(Len(entries), insuranceType)

TotalIsSumWitness ==
    /\ insuranceType = "subsidiado"
    /\ Len(entries) = 2
    /\ \A i \in 1..2 : calculateMinutes(entries[i].startTime, entries[i].endTime) = 120
    /\ memo.totalCost.value = Number(120)

\* C9: selecting a category leaves the entry list as it is (number, order,
\* ids, startTime, endTime, flowRate); only the factor used for the cost
\* changes.
CategoryKeepsEntries ==
    [][insuranceType' # insuranceType
          => /\ entries' = entries
             /\ memo'.calculateCost.value = paymentFactor(insuranceType')
             /\ memo'.calculateCost.value # memo.calculateCost.value]_vars

CategoryKeepsEntriesWitness ==
    /\ insuranceType = "subsidiado"
    /\ Len(entries) = 2
    /\ entries[1].flowRate = <<"2">>
    /\ entries[1].endTime = <<"1", ":", "0", "0", " ", "A", "M">>
    /\ entries[2].startTime = entries[1].endTime
    /\ memo.calculateCost.value = [m |-> 25, k |-> 2]

\* C10: in every state reached from the initial list by addEntry,
\* removeEntry and updateEntry the entry list holds at least one entry.
NeverEmpty == Len(entries) >= 1

\* C8: for every entry and category the minutes are a non-negative integer,
\* the entry's cost is non-negative and the total (here of the list holding
\* that entry) is non-negative, whatever string flowRate holds.
NonNegative ==
    CostDone =>
        /\ calculateMinutes(call.start.time, call.end.time) >= 0
        /\ call.ret[1].m >= 0
        /\ reduceCost(<<[id |-> 0, startTime |-> call.start.time,
                         endTime |-> call.end.time, flowRate |-> call.flowRate]>>,
                      paymentFactor(call.type)).m >= 0

\* C11: in every state reached from the initial list by addEntry,
\* removeEntry and updateEntry no two entries of the list have the same id.
UniqueIds ==
    \A i, j \in 1..Len(entries) : i # j => entries[i].id # entries[j].id

(***************************************************************************)
(* buildShareMessage.  The message is the list of its lines (joined with   *)
(* "\n" by the code).  The fixed text of a template literal is one         *)
(* element of a line; interpolated strings contribute their characters.    *)
(***************************************************************************)
Abs(n) == IF n < 0 THEN 0 - n ELSE n

\* the hundredths of |x| nearest to it, the larger of two equally near
Hundredths(m, k) ==
    IF k <= 2 THEN m * Pow10(2 - k)
    ELSE (m + Pow10(k - 2) \div 2) \div Pow10(k - 2)

FixedText(negative, cents) ==
    (IF negative THEN <<"-">> ELSE <<>>)
        \o String(cents \div 100) \o <<".">> \o TwoDigits(cents % 100)

\* Number.prototype.toFixed(2)
toFixed(x) == FixedText(x.m < 0, Hundredths(Abs(x.m), x.k))

\* `${x}` for a non-negative number
NumberText(x) ==
    IF x.k = 0 THEN String(x.m)
    ELSE String(x.m \div Pow10(x.k)) \o <<".">>
            \o padStart(String(x.m % Pow10(x.k)), x.k, "0")

\* s || '-'
OrDash(s) == IF s = <<>> THEN <<"-">> ELSE s

\* a summary that leaves out only entries of negative duration
Skipped_OnlyNegative(mins) == mins < 0

\* if (!mins || mins <= 0) return
Skipped(mins) == mins = 0 \/ mins <= 0

\* a cost column that prints a cost of zero
costStr_ZeroPrinted(cost) == IF cost.m >= 0 THEN toFixed(cost) ELSE <<"-">>

\* cost > 0 ? cost.toFixed(2) : '-'
costStr(cost) == IF GreaterThanZero(cost) THEN toFixed(cost) ELSE <<"-">>

Bar == <<" | ">>

\* `${i + 1} | ${inicio} | ${fin} | ${flow} | ${mins} | ${costStr}`
RowLine(i, entry, mins, cost) ==
    String(i + 1) \o Bar \o OrDash(entry.startTime) \o Bar \o OrDash(entry.endTime)
        \o Bar \o OrDash(entry.flowRate) \o Bar \o String(mins) \o Bar \o costStr(cost)

\* the body of the forEach callback for the entry at index i (from 0)
PushRow(i, entry, mins, factor) ==
    IF Skipped(mins) THEN <<>>
    ELSE <<RowLine(i, entry, mins, calculateCost(entry, factor))>>

\* entries.forEach((entry, i) => ...) over the first n entries
RECURSIVE forEachRow(_, _, _)
forEachRow(list, n, factor) ==
    IF n = 0 THEN <<>>
    ELSE forEachRow(list, n - 1, factor)
            \o PushRow(n - 1, list[n],
                       calculateMinutes(list[n].startTime, list[n].endTime), factor)

Preamble ==
    << <<"Registro de suministros de oxígeno">>,
       <<>>,
       <<"No. | Inicio | Fin | L/min | Min | Costo">>,
       <<"---------------------------------------------">> >>

buildShareMessage(list, totalCost, factor, type) ==
    Preamble
        \o forEachRow(list, Len(list), factor)
        \o << <<>>,
              <<"Total a Pagar: $">> \o toFixed(totalCost),
              <<"Factor aplicado: ">> \o NumberText(factor) \o <<" (", type, ")">> >>

\* buildShareMessage in a render whose cells are the given ones
MessageOf(cells, list, type) ==
    buildShareMessage(list, cells.totalCost.value, cells.calculateCost.value, type)

(***************************************************************************)
(* Inputs of the summary study: lists of up to MaxShareRows entries.       *)
(***************************************************************************)
MaxShareRows == 2

ShareIntervals ==
    { [start |-> <<>>, end |-> <<>>],
      [start |-> SevenAM.time, end |-> EightAM.time],
      [start |-> ElevenPM.time, end |-> OneAM.time],
      [start |-> EightAM.time, end |-> EightAM.time],
      [start |-> SevenAM.time, end |-> <<"x">>] }

ShareFlows == { <<>>, <<"2">>, <<"-", "2">>, <<"2", ".", "5">> }

ShareFields == [interval : ShareIntervals, flowRate : ShareFlows]

ShareEntry(i, f) ==
    [id |-> i - 1, startTime |-> f.interval.start, endTime |-> f.interval.end,
     flowRate |-> f.flowRate]

ShareLists ==
    UNION { { [i \in 1..n |-> ShareEntry(i, fs[i])] : fs \in [1..n -> ShareFields] } :
            n \in 1..MaxShareRows }

ShareInit ==
    /\ UIInit
    /\ \E list \in ShareLists, t \in InsuranceTypes :
            call = [op |-> "buildShareMessage", entries |-> list, type |-> t,
                    ret |-> <<>>]

BuildShareMessage ==
    /\ call.op = "buildShareMessage"
    /\ call' = [call EXCEPT
                  !.op = "shared",
                  !.ret = MessageOf(Render([calculateCost |-> NoCell, totalCost |-> NoCell],
                                           call.entries, call.type),
                                    call.entries, call.type)]
    /\ Unchanged_UI

ShareNext == BuildShareMessage

SpecShare == ShareInit /\ [][ShareNext]_vars

Shared == call.op = "shared"

\* the row lines of a message: what lies between the preamble and the
\* three closing lines
Rows(message) == SubSeq(message, Len(Preamble) + 1, Len(message) - 3)

\* the columns of a row line
RECURSIVE Columns(_)
Columns(line) ==
    IF \E p \in 1..Len(line) : line[p] = Bar[1]
    THEN LET p == CHOOSE q \in 1..Len(line) :
                    line[q] = Bar[1] /\ \A o \in 1..(q - 1) : line[o] # Bar[1]
         IN  <<SubSeq(line, 1, p - 1)>> \o Columns(SubSeq(line, p + 1, Len(line)))
    ELSE <<line>>

\* the entries of positive duration, in list order
Billable(list) ==
    SelectSeq(list, LAMBDA e : calculateMinutes(e.startTime, e.endTime) > 0)

\* the list positions named by the rows
RowPositions(message) ==
    { Numeral(Columns(Rows(message)[r])[1], 1, Len(Columns(Rows(message)[r])[1])) :
        r \in 1..Len(Rows(message)) }

\* C12: buildShareMessage emits a row for an entry exactly when its
\* calculateMinutes is greater than 0, the rows standing in list order; an
\* entry whose startTime or endTime is empty or unparseable, or whose end
\* equals its start, has no row.
RowsAreBillable ==
    Shared =>
        LET list == call.entries
            rows == Rows(call.ret)
            paid == Billable(list)
        IN  /\ Len(rows) = Len(paid)
            /\ \A r \in 1..Len(rows) :
                    /\ Columns(rows[r])[2] = paid[r].startTime
                    /\ Columns(rows[r])[3] = paid[r].endTime
                    /\ Columns(rows[r])[4] = OrDash(paid[r].flowRate)
            /\ RowPositions(call.ret) =
                    {i \in 1..Len(list) :
                        calculateMinutes(list[i].startTime, list[i].endTime) > 0}
            /\ \A i \in 1..Len(list) :
                    (\/ list[i].startTime = <<>> \/ list[i].endTime = <<>>
                     \/ Rejected(list[i].startTime) \/ Rejected(list[i].endTime)
                     \/ list[i].endTime = list[i].startTime)
                        => i \notin RowPositions(call.ret)

RowsAreBillableWitness ==
    /\ Shared
    /\ Len(call.entries) = 2
    /\ call.entries[1].startTime = SevenAM.time
    /\ Rejected(call.entries[1].endTime)
    /\ call.entries[2].startTime = ElevenPM.time
    /\ call.entries[2].endTime = OneAM.time
    /\ Len(Rows(call.ret)) = 1
    /\ RowPositions(call.ret) = {2}

\* the list position a row names in its first column
PositionOf(row) == Numeral(Columns(row)[1], 1, Len(Columns(row)[1]))

\* text is a numeral with two decimals within half a hundredth of x
TwoDecimalsOf(text, x) ==
    /\ IsNumeral(text)
    /\ NumeralValue(text).places = 2
    /\ Len(text) >= 4
    /\ text[Len(text) - 2] = "."
    /\ 2 * Abs(x.m * 100 - NumeralValue(text).num * Pow10(x.k)) <= Pow10(x.k)

\* C13: each row carries, in order, the entry's 1-based position in the full
\* entry list, its start string, end string and flow-rate string (each '-'
\* when empty), the integer minutes, and the cost to two decimals, '-'
\* exactly when the cost is not greater than zero; the positions increase
\* strictly down the summary.
RowColumns ==
    Shared =>
        LET list == call.entries
            rows == Rows(call.ret)
        IN  /\ \A r \in 1..Len(rows) :
                 LET cols == Columns(rows[r])
                     p    == PositionOf(rows[r])
                 IN  /\ Len(cols) = 6
                     /\ AllIn(cols[1], 1, Len(cols[1]), DigitChars)
                     /\ p \in 1..Len(list)
                     /\ cols[2] = IF list[p].startTime = <<>> THEN <<"-">>
                                  ELSE list[p].startTime
                     /\ cols[3] = IF list[p].endTime = <<>> THEN <<"-">>
                                  ELSE list[p].endTime
                     /\ cols[4] = IF list[p].flowRate = <<>> THEN <<"-">>
                                  ELSE list[p].flowRate
                     /\ AllIn(cols[5], 1, Len(cols[5]), DigitChars)
                     /\ Numeral(cols[5], 1, Len(cols[5]))
                            = calculateMinutes(list[p].startTime, list[p].endTime)
                     /\ cols[6] = <<"-">>
                            <=> calculateCost(list[p], paymentFactor(call.type)).m <= 0
                     /\ cols[6] # <<"-">>
                            => TwoDecimalsOf(cols[6],
                                   calculateCost(list[p], paymentFactor(call.type)))
            /\ \A r \in 1..(Len(rows) - 1) : PositionOf(rows[r]) < PositionOf(rows[r + 1])

RowColumnsWitness ==
    /\ Shared
    /\ call.type = "subsidiado"
    /\ Len(call.entries) = 2
    /\ calculateMinutes(call.entries[1].startTime, call.entries[1].endTime) = 0
    /\ call.entries[2].flowRate = <<"2", ".", "5">>
    /\ Rows(call.ret) =
          << <<"2", " | ", "7", ":", "0", "0", " ", "A", "M", " | ",
               "8", ":", "0", "0", " ", "A", "M", " | ", "2", ".", "5", " | ",
               "6", "0", " | ", "3", "7", ".", "5", "0">> >>

(***************************************************************************)
(* updateEntry as a function of the list it replaces.  The screen passes   *)
(* a functional update (prev) => ... to setEntries; the simpler variant    *)
(* (app/index.tsx) maps over the entries of its closure, without seeding.  *)
(***************************************************************************)
\* entries.map(entry => entry.id === id ? { ...entry, [field]: value } : entry)
updateEntrySimple(list, id, field, value) ==
    [i \in 1..Len(list) |->
        IF list[i].id = id THEN [list[i] EXCEPT ![field] = value] ELSE list[i]]

MaxUpdateRows == 3

UpdateFields ==
    [startTime : {<<>>, SevenAM.time}, endTime : {<<>>, EightAM.time},
     flowRate : {<<>>, <<"2">>}]

UpdateEntryOf(i, f) ==
    [id |-> i - 1, startTime |-> f.startTime, endTime |-> f.endTime,
     flowRate |-> f.flowRate]

UpdateLists ==
    UNION { { [i \in 1..n |-> UpdateEntryOf(i, fs[i])] : fs \in [1..n -> UpdateFields] } :
            n \in 1..MaxUpdateRows }

\* what a handler passes: a picked time, or the text of the flow-rate input
UpdateWrites ==
    { [field |-> "startTime", value |-> OneAM.time],
      [field |-> "endTime", value |-> OneAM.time],
      [field |-> "flowRate", value |-> <<"5">>],
      [field |-> "flowRate", value |-> <<>>] }

\* the ids of the list and one id that no entry has (its entry was removed)
UpdateIds(list) == 0..Len(list)

UpdateInit ==
    /\ UIInit
    /\ \E list \in UpdateLists, w \in UpdateWrites, v \in {"screen", "simple"} :
         \E id \in UpdateIds(list) :
            call = [op |-> "updateEntry", variant |-> v, prev |-> list, id |-> id,
                    field |-> w.field, value |-> w.value, ret |-> <<>>]

UpdateEntry ==
    /\ call.op = "updateEntry"
    /\ call.variant = "screen"
    /\ call' = [call EXCEPT
                  !.op = "updated",
                  !.ret = updateEntry(call.prev, call.id, call.field, call.value)]
    /\ Unchanged_UI

UpdateEntrySimple ==
    /\ call.op = "updateEntry"
    /\ call.variant = "simple"
    /\ call' = [call EXCEPT
                  !.op = "updated",
                  !.ret = updateEntrySimple(call.prev, call.id, call.field, call.value)]
    /\ Unchanged_UI

UpdateNext == UpdateEntry \/ UpdateEntrySimple

SpecUpdate == UpdateInit /\ [][UpdateNext]_vars

UpdateDone == call.op = "updated"

\* the positions of the entries with the id of the call
Targets == {i \in 1..Len(call.prev) : call.prev[i].id = call.id}

\* C14: updateEntry(id, 'endTime', v) on the entry at position i writes v to
\* that entry's endTime and, in the same list replacement, writes v to the
\* startTime of entry i+1 exactly when that entry exists and its startTime
\* is empty; a non-empty startTime of entry i+1 and every entry from i+2 on
\* are left as they were.
SeedsNextOnly ==
    (UpdateDone /\ call.variant = "screen" /\ call.field = "endTime")
        => \A i \in Targets :
             /\ Len(call.ret) = Len(call.prev)
             /\ call.ret[i] = [call.prev[i] EXCEPT !.endTime = call.value]
             /\ i + 1 <= Len(call.prev)
                  => /\ call.prev[i + 1].startTime = <<>>
                          => call.ret[i + 1] =
                                [call.prev[i + 1] EXCEPT !.startTime = call.value]
                     /\ call.prev[i + 1].startTime # <<>>
                          => call.ret[i + 1] = call.prev[i + 1]
             /\ \A j \in (i + 2)..Len(call.prev) : call.ret[j] = call.prev[j]
             /\ \A j \in 1..(i - 1) : call.ret[j] = call.prev[j]

SeedsNextOnlyWitness ==
    /\ UpdateDone
    /\ call.variant = "screen"
    /\ call.field = "endTime"
    /\ Len(call.prev) = 3
    /\ call.id = call.prev[1].id
    /\ call.prev[2].startTime = <<>>
    /\ call.prev[3].startTime = <<>>
    /\ call.ret[1].endTime = OneAM.time
    /\ call.ret[2].startTime = OneAM.time
    /\ call.ret[3].startTime = <<>>

EntryFields == {"startTime", "endTime", "flowRate"}

\* field f of entry i is the start time that the call may seed
Seeded(i, f) ==
    /\ call.variant = "screen"
    /\ call.field = "endTime"
    /\ f = "startTime"
    /\ i - 1 \in Targets
    /\ call.prev[i].startTime = <<>>

\* C15: updateEntry(id, field, value) keeps the length, the order and the ids
\* of the list; it changes only the named field of the entry with that id
\* (and the start time it seeds when the field is endTime), every other
\* field of every entry staying as it was; when no entry has the id the list
\* is left unchanged.
UpdateFrame ==
    UpdateDone =>
        /\ Len(call.ret) = Len(call.prev)
        /\ \A i \in 1..Len(call.prev) : call.ret[i].id = call.prev[i].id
        /\ \A i \in Targets : call.ret[i][call.field] = call.value
        /\ \A i \in 1..Len(call.prev), f \in EntryFields :
              call.ret[i][f] # call.prev[i][f]
                  => /\ call.ret[i][f] = call.value
                     /\ (i \in Targets /\ f = call.field) \/ Seeded(i, f)
        /\ Targets = {} => call.ret = call.prev

UpdateFrameWitness ==
    /\ UpdateDone
    /\ call.variant = "screen"
    /\ Len(call.prev) = 3
    /\ call.id = call.prev[2].id
    /\ call.field = "flowRate"
    /\ call.prev[2] = [id |-> 1, startTime |-> SevenAM.time, endTime |-> EightAM.time,
                       flowRate |-> <<"2">>]
    /\ call.ret[2] = [call.prev[2] EXCEPT !.flowRate = <<"5">>]
    /\ call.ret[1] = call.prev[1]
    /\ call.ret[3] = call.prev[3]

(***************************************************************************)
(* Handlers invoked from one render.  Every handler of a render closes     *)
(* over the entry list of that render; setEntries puts an update in the    *)
(* queue of the state hook, a list or a function of the previous list,     *)
(* and the next render applies the queue in order.  addEntry and           *)
(* removeEntry pass a list built from the closure; updateEntry passes a    *)
(* function in the screen and a list in the simpler variant.               *)
(***************************************************************************)
MaxBatch == 2

BatchWrites ==
    { [field |-> "startTime", value |-> formatDateToTime([hours |-> 23, minutes |-> 0])],
      [field |-> "endTime", value |-> formatDateToTime([hours |-> 1, minutes |-> 0])],
      [field |-> "flowRate", value |-> <<"2">>] }

\* setEntries(list)
ListUpdate(handler, id, list) ==
    [handler |-> handler, id |-> id, field |-> "", value |-> <<>>,
     kind |-> "list", list |-> list]

\* setEntries((prev) => ...) of the screen's updateEntry
FunctionUpdate(id, field, value) ==
    [handler |-> "updateEntry", id |-> id, field |-> field, value |-> value,
     kind |-> "function", list |-> <<>>]

\* setEntries(entries.map(...)) of the simpler variant's updateEntry
MappedUpdate(list, id, field, value) ==
    [handler |-> "updateEntry", id |-> id, field |-> field, value |-> value,
     kind |-> "list", list |-> updateEntrySimple(list, id, field, value)]

\* the state after one queued update
Reduce(list, update) ==
    IF update.kind = "list" THEN update.list
    ELSE updateEntry(list, update.id, update.field, update.value)

\* the queue applied in order to the rendered list
RECURSIVE ApplyQueue(_, _)
ApplyQueue(list, queue) ==
    IF queue = <<>> THEN list
    ELSE ApplyQueue(Reduce(list, Head(queue)), Tail(queue))

\* a handler may run: the render of its closure is still the last one
Invocable == call.op = "handlers" /\ Len(call.queue) < MaxBatch

Enqueued(update) == [call EXCEPT !.queue = Append(call.queue, update)]

BatchInit ==
    /\ UIInit
    /\ \E v \in {"screen", "simple"} :
            call = [op |-> "handlers", variant |-> v, queue |-> <<>>]

InvokeUpdateEntry(id, field, value) ==
    /\ Invocable
    /\ call' = Enqueued(IF call.variant = "screen"
                        THEN FunctionUpdate(id, field, value)
                        ELSE MappedUpdate(entries, id, field, value))
    /\ Unchanged_UI

InvokeAddEntry ==
    /\ Invocable
    /\ call' = Enqueued(ListUpdate("addEntry", DateNow, addEntry(entries, DateNow)))
    /\ Unchanged_UI

InvokeRemoveEntry(id) ==
    /\ Invocable
    /\ Len(entries) > 1
    /\ call' = Enqueued(ListUpdate("removeEntry", id, removeEntry(entries, id)))
    /\ Unchanged_UI

\* the render that follows the handlers
Rerender ==
    /\ call.op = "handlers"
    /\ call.queue # <<>>
    /\ Commit(ApplyQueue(entries, call.queue), insuranceType)
    /\ call' = [call EXCEPT !.op = "rendered"]
    /\ UNCHANGED now

BatchNext ==
    \/ \E id \in Ids(entries), w \in BatchWrites : InvokeUpdateEntry(id, w.field, w.value)
    \/ InvokeAddEntry
    \/ \E id \in Ids(entries) : InvokeRemoveEntry(id)
    \/ Rerender

SpecBatch == BatchInit /\ [][BatchNext]_vars

\* C16: when updateEntry and addEntry, or removeEntry of another entry, are
\* both invoked from handlers of the same render, in either order, the value
\* written by updateEntry is in the entry list of the next render.
NoLostUpdate ==
    (call.op = "rendered" /\ Len(call.queue) = 2)
        => \A a, b \in 1..2 :
              (/\ a # b
               /\ call.queue[a].handler = "updateEntry"
               /\ \/ call.queue[b].handler = "addEntry"
                  \/ /\ call.queue[b].handler = "removeEntry"
                     /\ call.queue[b].id # call.queue[a].id)
                 => \E i \in 1..Len(entries) :
                        /\ entries[i].id = call.queue[a].id
                        /\ entries[i][call.queue[a].field] = call.queue[a].value

\* the cost a row shows: that of its entry, zero when the column is '-'
ShownCost(row, list, factor) ==
    IF Columns(row)[6] = <<"-">> THEN Number(0)
    ELSE calculateCost(list[PositionOf(row)], factor)

RECURSIVE SumOfShown(_, _, _)
SumOfShown(rows, list, factor) ==
    IF rows = <<>> THEN Number(0)
    ELSE Plus(SumOfShown(Tail(rows), list, factor), ShownCost(Head(rows), list, factor))

\* the line before the factor line
TotalLine(message) == message[Len(message) - 1]

\* C17: the total of the 'Total a Pagar' line is the sum of the costs shown
\* in the rows of the summary, a '-' counting as zero (the sum taken on the
\* unrounded costs): omitted entries and rows with '-' add nothing.
TotalOfRows ==
    Shared =>
        TotalLine(call.ret) =
            <<"Total a Pagar: $">>
                \o toFixed(SumOfShown(Rows(call.ret), call.entries,
                                      paymentFactor(call.type)))

(***************************************************************************)
(* The web time picker (TimePickerModal) and its use by the screen.  The   *)
(* modal keeps hour (1..12), minute and ampm; an effect resets them from   *)
(* the value prop when the modal becomes visible or the value changes.     *)
(* A Date is its getHours() and getMinutes().                              *)
(***************************************************************************)
HOURS == 1..12

MINUTES == 0..59

AM == <<"A", "M">>

PM == <<"P", "M">>

\* h % 12 || 12, value.getMinutes(), h >= 12 ? 'PM' : 'AM'
Selection(value) ==
    [hour   |-> IF value.hours % 12 = 0 THEN 12 ELSE value.hours % 12,
     minute |-> value.minutes,
     ampm   |-> IF value.hours >= 12 THEN PM ELSE AM]

\* handleConfirm without the step from 12 AM to hour 0
ConfirmedHours_NoMidnight(hour, ampm) ==
    IF ampm = PM /\ hour < 12 THEN hour + 12 ELSE hour

\* the hours handleConfirm passes to setHours
ConfirmedHours(hour, ampm) ==
    IF ampm = PM /\ hour < 12 THEN hour + 12
    ELSE IF ampm = AM /\ hour = 12 THEN 0
    ELSE hour

\* newDate after setHours(hours), setMinutes(minute)
handleConfirm(selection) ==
    [hours |-> ConfirmedHours(selection.hour, selection.ampm), minutes |-> selection.minute]

\* What the user means to do with the open picker: nothing (<<>>), or
\* bring it to one selection (<<selection>>).
Selections == [hour : HOURS, minute : MINUTES, ampm : {AM, PM}]

Plans == {<<>>} \cup {<<s>> : s \in Selections}

\* new Date() when the screen is mounted
MountDates == {[hours |-> 9, minutes |-> 41]}

\* new Date() when the picker is opened on an empty field: every time of
\* day when the selection is to be confirmed as it is, two times otherwise
OpenDates(plan) ==
    IF plan = <<>> THEN Dates
    ELSE {[hours |-> 0, minutes |-> 0], [hours |-> 13, minutes |-> 5]}

PickerInit ==
    /\ UIInit
    /\ \E d \in MountDates, p \in Plans :
            call = [op |-> "closed", plan |-> p, webTimePickerDate |-> d,
                    webTimePickerEntry |-> <<>>, selection |-> Selection(d),
                    ret |-> null]

\* openTimePicker on the web, and the effect of the modal after the render
OpenTimePicker(entryId, field, date) ==
    /\ call.op = "closed"
    /\ call' = [call EXCEPT
                  !.op = "open",
                  !.webTimePickerDate = date,
                  !.webTimePickerEntry = <<[entryId |-> entryId, field |-> field]>>,
                  !.selection = Selection(date)]
    /\ Unchanged_UI

Planned(part, v) ==
    /\ call.op = "open"
    /\ call.plan # <<>>
    /\ call.plan[1][part] = v
    /\ call.selection[part] # v

SetHour(h) ==
    /\ Planned("hour", h)
    /\ call' = [call EXCEPT !.selection.hour = h]
    /\ Unchanged_UI

SetMinute(m) ==
    /\ Planned("minute", m)
    /\ call' = [call EXCEPT !.selection.minute = m]
    /\ Unchanged_UI

SetAmpm(ap) ==
    /\ Planned("ampm", ap)
    /\ call' = [call EXCEPT !.selection.ampm = ap]
    /\ Unchanged_UI

\* handleConfirm, then onConfirm of the screen
Confirm ==
    /\ call.op = "open"
    /\ call.plan = <<>> \/ call.plan = <<call.selection>>
    /\ Commit(IF call.webTimePickerEntry # <<>>
              THEN updateEntry(entries, call.webTimePickerEntry[1].entryId,
                               call.webTimePickerEntry[1].field,
                               formatDateToTime(handleConfirm(call.selection)))
              ELSE entries,
              insuranceType)
    /\ call' = [call EXCEPT !.op = "confirmed",
                            !.ret = <<handleConfirm(call.selection)>>]
    /\ UNCHANGED now

PickerNext ==
    \/ \E id \in Ids(entries), field \in {"startTime", "endTime"} :
         \E d \in OpenDates(call.plan) : OpenTimePicker(id, field, d)
    \/ \E h \in HOURS : SetHour(h)
    \/ \E m \in MINUTES : SetMinute(m)
    \/ \E ap \in {AM, PM} : SetAmpm(ap)
    \/ Confirm

SpecPicker == PickerInit /\ [][PickerNext]_vars

Confirmed == call.op = "confirmed"

\* the entry field the confirmed time was written to
Written ==
    entries[CHOOSE i \in 1..Len(entries) :
                entries[i].id = call.webTimePickerEntry[1].entryId]
           [call.webTimePickerEntry[1].field]

\* '<hour>:<MM> <marker>' for an hour of 1..12
TimeText(hour, minute, marker) ==
    (IF hour < 10 THEN <<Digit[hour + 1]>> ELSE <<"1", Digit[hour - 9]>>)
        \o <<":", Digit[(minute \div 10) + 1], Digit[(minute % 10) + 1], " ">>
        \o marker

\* C18: opening TimePickerModal at H:M (H in 0..23, M in 0..59) and
\* confirming without a change gives a date of hour H and minute M; for
\* every selection (hour 1..12, minute 0..59, AM or PM) formatDateToTime of
\* the confirmed date is '<hour>:<MM> <AM|PM>' with the selected hour, minute
\* and marker, so the string always has a marker and an hour of 1..12.
PickerRoundTrip ==
    Confirmed =>
        /\ call.plan = <<>> => call.ret = <<call.webTimePickerDate>>
        /\ call.plan # <<>> =>
              formatDateToTime(call.ret[1]) =
                  TimeText(call.plan[1].hour, call.plan[1].minute, call.plan[1].ampm)
        /\ Written = formatDateToTime(call.ret[1])
        /\ \E h \in HOURS, m \in MINUTES, ap \in {AM, PM} : Written = TimeText(h, m, ap)

PickerRoundTripWitness ==
    /\ Confirmed
    /\ call.webTimePickerDate = [hours |-> 13, minutes |-> 5]
    /\ call.plan = <<[hour |-> 12, minute |-> 30, ampm |-> AM]>>
    /\ call.ret = <<[hours |-> 0, minutes |-> 30]>>
    /\ Written = <<"1", "2", ":", "3", "0", " ", "A", "M">>

(***************************************************************************)
(* calculateMinutes of the simpler variant (app/index.tsx): its parseTime  *)
(* trims, splits at ':' and reads each part with parseInt(part, 10).       *)
(***************************************************************************)
\* String.prototype.split(sep) for a one-character separator
RECURSIVE split(_, _)
split(s, sep) ==
    IF \E p \in 1..Len(s) : s[p] = sep
    THEN LET p == CHOOSE q \in 1..Len(s) : s[q] = sep /\ \A o \in 1..(q - 1) : s[o] # sep
         IN  <<SubSeq(s, 1, p - 1)>> \o split(SubSeq(s, p + 1, Len(s)), sep)
    ELSE <<s>>

\* the digits parseInt reads: NaN when there is none
Integer(sign, digits) == IF digits = <<>> THEN NaN ELSE <<sign * parseInt(digits)>>

\* parseInt(str, 10) of any string: leading white space, an optional sign,
\* then the longest run of digits; what follows is ignored
parseIntPrefix(str) == Integer(Sign(trimStart(str)), DigitRun(Unsigned(trimStart(str))))

\* !(hours < 0 || hours > 23 || minutes < 0 || minutes > 59)
WithinDay(hours, minutes) == ~ (hours < 0 \/ hours > 23 \/ minutes < 0 \/ minutes > 59)

MinutesOfParts(hours, minutes) ==
    IF hours = NaN \/ minutes = NaN THEN null
    ELSE IF ~ WithinDay(hours[1], minutes[1]) THEN null
    ELSE <<hours[1] * 60 + minutes[1]>>

ParseParts(parts) ==
    IF Len(parts) # 2 THEN null
    ELSE MinutesOfParts(parseIntPrefix(parts[1]), parseIntPrefix(parts[2]))

parseTimeSimple(time) == ParseParts(split(trim(time), ":"))

calculateMinutesSimple(startTime, endTime) ==
    IF startTime = <<>> \/ endTime = <<>> THEN 0
    ELSE Elapsed(parseTimeSimple(startTime), parseTimeSimple(endTime))

(***************************************************************************)
(* Inputs of the comparison of the two variants.                           *)
(***************************************************************************)
PlainClocks ==
    { c \in ClockShapes : /\ c.hour.value \in {0, 7, 14, 23, 24}
                          /\ c.minute \in {0, 30, 60}
                          /\ c.dress.pre = <<>> /\ c.dress.suf = <<>> }

MarkedDates ==
    { [hours |-> 7, minutes |-> 0], [hours |-> 13, minutes |-> 30],
      [hours |-> 23, minutes |-> 0], [hours |-> 1, minutes |-> 0] }

VariantOperands ==
    {ClockOperand(c) : c \in PlainClocks} \cup {DateOperand(d) : d \in MarkedDates}

EightPlain ==
    ClockOperand([kind |-> "clock", hour |-> [value |-> 8, wide |-> TRUE], minute |-> 0,
                  dress |-> [pre |-> <<>>, suf |-> <<>>, marker |-> ""]])

VariantsInit ==
    /\ UIInit
    /\ \/ \E a \in VariantOperands, b \in VariantOperands :
            call = [op |-> "simple", start |-> a, end |-> b, simple |-> null,
                    ret |-> null]
       \/ \E j \in JunkTimes :
            \/ call = [op |-> "simple", start |-> JunkOperand(j), end |-> EightPlain,
                       simple |-> null, ret |-> null]
            \/ call = [op |-> "simple", start |-> EightPlain, end |-> JunkOperand(j),
                       simple |-> null, ret |-> null]

CalculateMinutesSimple ==
    /\ call.op = "simple"
    /\ call' = [call EXCEPT
                  !.op = "screen",
                  !.simple = <<calculateMinutesSimple(call.start.time, call.end.time)>>]
    /\ Unchanged_UI

CalculateMinutesScreen ==
    /\ call.op = "screen"
    /\ call' = [call EXCEPT
                  !.op = "compared",
                  !.ret = <<calculateMinutes(call.start.time, call.end.time)>>]
    /\ Unchanged_UI

VariantsNext == CalculateMinutesSimple \/ CalculateMinutesScreen

SpecVariants == VariantsInit /\ [][VariantsNext]_vars

Compared == call.op = "compared"

\* one or two digits, a colon, two digits, and nothing else
PlainForm(s) ==
    /\ Len(s) \in {4, 5}
    /\ s[Len(s) - 2] = ":"
    /\ AllIn(s, 1, Len(s) - 3, DigitChars)
    /\ AllIn(s, Len(s) - 1, Len(s), DigitChars)

\* C19: the simpler variant parses 24-hour HH:MM only: its calculateMinutes
\* returns 0 whenever either string has a meridiem marker or is anything but
\* one or two digits, a colon and two digits, and on two strings of that
\* plain form it returns what the tolerant variant returns.
StrictTwentyFourHour ==
    Compared =>
        /\ ~ (PlainForm(call.start.time) /\ PlainForm(call.end.time))
              => call.simple = <<0>>
        /\ (PlainForm(call.start.time) /\ PlainForm(call.end.time))
              => call.simple = call.ret

====
